---- MODULE Spec2Model ----
(***************************************************************************)
(* Model of GIS_Project/urban_green_space_analysis.py: the retry loop of   *)
(* extract_features, the geometry flattening of feature_to_coords, and the *)
(* pipeline run by main over the engine's "feature class exists" state.    *)
(*                                                                         *)
(* Strings that the code inspects or builds (an engine error text, a file   *)
(* name, a path) are sequences of their characters.  A geometry is a       *)
(* sequence of parts, a part a sequence of points, a point a record that   *)
(* is either None or carries X and Y.                                      *)
(***************************************************************************)
EXTENDS Integers, Sequences, FiniteSets, TLC

VARIABLES
    \* ---- extract_features (one invocation) ----
    e_pc,          \* "idle" | "loop" | "try" | "except" | "sleep" | "returned" | "raised"
    max_attempts,  \* argument
    delay,         \* argument
    input_shp,     \* argument: the features of the input shapefile
    output_fc,     \* argument: name of the output feature class
    where_clause,  \* argument: the set of fclass values selected
    attempt,       \* loop variable of `for attempt in range(max_attempts)`
    e_err,         \* text of the ExecuteError caught or raised, <<>> if none
    log,           \* Select_analysis calls and sleeps of this invocation, in order
    \* ---- engine / filesystem ----
    gdb_exists,    \* UrbanGreenSpace.gdb exists
    exists,        \* names of the feature classes that exist in the geodatabase
    contents,      \* feature class name -> its features
    area_fields,   \* feature classes that carry the Area_Hectares field
    workspace,     \* the .shp files arcpy.ListFiles sees, in listing order
    written,       \* paths of the files written by savefig, in order
    \* ---- main ----
    m_pc,          \* position of main
    export_location,
    city_name,
    m_err,         \* the exception travelling to / caught by main's handler
    built_by,      \* which branch of lines 101-108 ran
    area_calls,    \* feature classes calculate_areas was invoked on, in order
    fig,           \* value returned by create_map
    printed,       \* tags of the messages printed
    \* ---- feature_to_coords harness ----
    fc_in,         \* a feature class handed to feature_to_coords
    coords_out     \* what feature_to_coords returned for it

e_vars == <<e_pc, max_attempts, delay, input_shp, output_fc, where_clause,
            attempt, e_err, log>>
g_vars == <<gdb_exists, exists, contents, area_fields, workspace, written>>
m_vars == <<m_pc, export_location, city_name, m_err, built_by, area_calls, fig>>
c_vars == <<fc_in, coords_out>>
vars == <<e_vars, g_vars, m_vars, c_vars, printed>>

----------------------------------------------------------------------------
(* Bounds of the model *)

\* largest max_attempts handed to extract_features in the retry harness
MaxAttemptsBound == 5
\* most features in a feature class handed to feature_to_coords in the harness
MaxFeatures == 3

(* Program constants *)

\* extract_features(..., max_attempts=5, ...)
DEFAULT_MAX_ATTEMPTS == 5
\* extract_features(..., delay=5)
DEFAULT_DELAY == 5

----------------------------------------------------------------------------
(* Values *)

Last(s) == s[Len(s)]

RECURSIVE SeqsUpTo(_, _)
\* all sequences over S of length at most n
SeqsUpTo(S, n) ==
    IF n = 0 THEN {<<>>}
    ELSE LET shorter == SeqsUpTo(S, n - 1)
         IN  shorter \cup {Append(s, x) : s \in {t \in shorter : Len(t) = n - 1}, x \in S}

\* arcpy.Point, or None where the engine yields a null point (ring separator)
Pt(x, y) == [none |-> FALSE, X |-> x, Y |-> y]
NonePoint == [none |-> TRUE, X |-> 0, Y |-> 0]

\* `if pnt:` taken for every point, None included
Truthy_Always(pnt) == TRUE

\* `if pnt:` -- an arcpy.Point is truthy, None is not
Truthy(pnt) == ~pnt.none

----------------------------------------------------------------------------
(* The engine, as far as the script observes it *)

\* str(e) of the ExecuteError the engine can raise, character by character:
\* "ERROR 000464: lock", "Failed\nERROR 0004640", "ERROR 000210" and
\* "Failed\nERROR 00046"
LockError1 == <<"E", "R", "R", "O", "R", " ", "0", "0", "0", "4", "6", "4", ":", " ", "l", "o", "c", "k">>
LockError2 == <<"F", "a", "i", "l", "e", "d", "\n", "E", "R", "R", "O", "R", " ", "0", "0", "0", "4", "6", "4", "0">>
OtherError1 == <<"E", "R", "R", "O", "R", " ", "0", "0", "0", "2", "1", "0">>
OtherError2 == <<"F", "a", "i", "l", "e", "d", "\n", "E", "R", "R", "O", "R", " ", "0", "0", "0", "4", "6">>
ErrorTexts == {LockError1, LockError2, OtherError1, OtherError2}

\* outcome of one engine call: <<>> is success, otherwise the error text raised
Outcomes == {<<>>} \cup ErrorTexts

\* the feature class names main uses (os.path.join(gdb_path, <name>))
FCNames == {"Parks", "NaturalAreas", "GreenSpaces", "Residential"}

\* `needle in text`: needle occurs in text as a run of consecutive characters
Contains(text, needle) ==
    \E i \in 1..(Len(text) - Len(needle) + 1) :
        SubSeq(text, i, i + Len(needle) - 1) = needle

\* the literal "ERROR 000464"
ERROR_000464 == <<"E", "R", "R", "O", "R", " ", "0", "0", "0", "4", "6", "4">>

\* `"ERROR 000464" in str(e)`
Contains464(text) == Contains(text, ERROR_000464)

\* what a successful arcpy.Select_analysis(input, output, where) writes
SelectRows(feats, where) ==
    LET Keep(f) == f.fclass \in where IN SelectSeq(feats, Keep)

----------------------------------------------------------------------------
(* extract_features *)

\* line 39 with an off-by-one bound: the final failure is retried as well
ShouldRetry_OffByOne(text, att, maxatt) == Contains464(text) /\ att < maxatt

\* line 39 without the error-code test: every ExecuteError is retried
ShouldRetry_AnyError(text, att, maxatt) == att < maxatt - 1

\* line 39: `"ERROR 000464" in str(e) and attempt < max_attempts - 1`
ShouldRetry(text, att, maxatt) == Contains464(text) /\ att < maxatt - 1

\* line 41 sleeping a duration that grows with the attempt
SleepDuration_Growing(d, att) == d * (att + 1)

\* line 41: time.sleep(delay)
SleepDuration(d, att) == d

\* one printed message: its kind, its numbers and its path or name
Msg(kind, a, b, path) == [msg |-> kind, a |-> a, b |-> b, p |-> path]

CallEvent(outcome) == [t |-> "call", r |-> outcome, d |-> 0]
SleepEvent(d) == [t |-> "sleep", r |-> <<>>, d |-> d]

\* line 33: the for statement takes the next value of range(max_attempts), or the
\* loop ends and the function returns None
ExtractLoop ==
    /\ e_pc = "loop"
    /\ IF attempt + 1 < max_attempts
       THEN /\ attempt' = attempt + 1
            /\ e_pc' = "try"
       ELSE /\ attempt' = attempt
            /\ e_pc' = "returned"
    /\ UNCHANGED <<max_attempts, delay, input_shp, output_fc, where_clause, e_err, log>>
    /\ UNCHANGED <<g_vars, m_vars, c_vars, printed>>

\* lines 34-38: one arcpy.Select_analysis call; success prints and returns
ExtractTry ==
    /\ e_pc = "try"
    /\ \E outcome \in Outcomes :
        /\ log' = Append(log, CallEvent(outcome))
        /\ IF outcome = <<>>
           THEN /\ exists' = exists \cup {output_fc}
                /\ contents' = [contents EXCEPT ![output_fc] = SelectRows(input_shp, where_clause)]
                /\ area_fields' = area_fields \ {output_fc}
                /\ printed' = Append(printed, Msg("extracted", 0, 0, <<output_fc>>))
                /\ e_err' = e_err
                /\ e_pc' = "returned"
           ELSE /\ e_err' = outcome
                /\ e_pc' = "except"
                /\ UNCHANGED <<exists, contents, area_fields, printed>>
    /\ UNCHANGED <<max_attempts, delay, input_shp, output_fc, where_clause, attempt>>
    /\ UNCHANGED <<gdb_exists, workspace, written, m_vars, c_vars>>

\* lines 38-43: the except clause: print and sleep, or re-raise
ExtractExcept ==
    /\ e_pc = "except"
    /\ IF ShouldRetry(e_err, attempt, max_attempts)
       THEN /\ printed' = Append(printed, Msg("retrying", attempt + 1, delay, <<>>))
            /\ log' = Append(log, SleepEvent(SleepDuration(delay, attempt)))
            /\ e_pc' = "loop"
       ELSE /\ e_pc' = "raised"
            /\ UNCHANGED <<printed, log>>
    /\ UNCHANGED <<max_attempts, delay, input_shp, output_fc, where_clause, attempt, e_err>>
    /\ UNCHANGED <<g_vars, m_vars, c_vars>>

extract_features == ExtractLoop \/ ExtractTry \/ ExtractExcept

\* the state in which extract_features(shp, fc, where, maxatt, d) has just been entered
EnterExtract(shp, fc, where, maxatt, d) ==
    /\ e_pc' = "loop"
    /\ input_shp' = shp
    /\ output_fc' = fc
    /\ where_clause' = where
    /\ max_attempts' = maxatt
    /\ delay' = d
    /\ attempt' = -1
    /\ e_err' = <<>>
    /\ log' = <<>>

----------------------------------------------------------------------------
(* feature_to_coords *)

\* lines 57-59: for pnt in part: if pnt: coords.append((pnt.X, pnt.Y))
RECURSIVE PointsLoop(_, _, _)
PointsLoop(part, k, coords) ==
    IF k > Len(part) THEN coords
    ELSE PointsLoop(part, k + 1,
                    IF Truthy(part[k])
                    THEN Append(coords, <<part[k].X, part[k].Y>>)
                    ELSE coords)

\* line 56: for part in row[0]
RECURSIVE PartsLoop(_, _, _)
PartsLoop(shape, j, coords) ==
    IF j > Len(shape) THEN coords
    ELSE PartsLoop(shape, j + 1, PointsLoop(shape[j], 1, coords))

\* line 55: for row in cursor
RECURSIVE RowsLoop(_, _, _)
RowsLoop(cursor, i, coords) ==
    IF i > Len(cursor) THEN coords
    ELSE RowsLoop(cursor, i + 1, PartsLoop(cursor[i][1], 1, coords))

\* line 54: arcpy.da.SearchCursor(feature_class, ["SHAPE@"]) yields one 1-tuple per feature
SearchCursor(feats) == [i \in 1..Len(feats) |-> <<feats[i].shape>>]

\* line 60: np.array(coords): an empty list gives a 1-d array of shape (0,),
\* a list of n pairs a 2-d array of shape (n, 2)
np_array(coords) == [ndim |-> IF coords = <<>> THEN 1 ELSE 2, data |-> coords]

\* lines 51-60
feature_to_coords(feats) == np_array(RowsLoop(SearchCursor(feats), 1, <<>>))

\* lines 68, 72: arr[:, 0] and arr[:, 1] raise IndexError on an array of fewer than 2 dimensions
CanTakeColumns(arr) == arr.ndim >= 2

----------------------------------------------------------------------------
(* Paths and file lookup *)

\* posixpath.join(a, b)
os_path_join(a, b) ==
    IF b # <<>> /\ b[1] = "/" THEN b
    ELSE IF a = <<>> \/ Last(a) = "/" THEN a \o b
    ELSE a \o <<"/">> \o b

\* line 121 building the name from the workspace-independent prefix of the PDF
PngName_Swapped(city) ==
    <<"u", "r", "b", "a", "n", "_", "g", "r", "e", "e", "n", "_", "s", "p", "a", "c", "e", "_", "a", "n", "a", "l", "y", "s", "i", "s", "_">>
        \o city \o <<".", "p", "n", "g">>

\* line 121: f"urban_green_space_map_{city_name}.png"
PngName(city) ==
    <<"u", "r", "b", "a", "n", "_", "g", "r", "e", "e", "n", "_", "s", "p", "a", "c", "e", "_", "m", "a", "p", "_">>
        \o city \o <<".", "p", "n", "g">>

\* line 122: f"urban_green_space_analysis_{city_name}.pdf"
PdfName(city) ==
    <<"u", "r", "b", "a", "n", "_", "g", "r", "e", "e", "n", "_", "s", "p", "a", "c", "e", "_", "a", "n", "a", "l", "y", "s", "i", "s", "_">>
        \o city \o <<".", "p", "d", "f">>

\* line 27: a file name matches the wildcard f"*{pattern}*.shp": it ends in
\* ".shp" and the pattern occurs before that ending
Matches(name, pattern) ==
    /\ Len(name) >= 4
    /\ SubSeq(name, Len(name) - 3, Len(name)) = <<".", "s", "h", "p">>
    /\ Contains(SubSeq(name, 1, Len(name) - 4), pattern)

\* lines 25-29: index of the first listed file that matches, 0 where the code
\* raises FileNotFoundError
find_shapefile(files, pattern) ==
    IF \E i \in 1..Len(files) : Matches(files[i].name, pattern)
    THEN CHOOSE i \in 1..Len(files) :
            /\ Matches(files[i].name, pattern)
            /\ \A j \in 1..(i - 1) : ~Matches(files[j].name, pattern)
    ELSE 0

----------------------------------------------------------------------------
(* main *)

\* lines 96, 115: find_shapefile("landuse")
LandusePattern == <<"l", "a", "n", "d", "u", "s", "e">>
\* line 98: find_shapefile("natural")
NaturalPattern == <<"n", "a", "t", "u", "r", "a", "l">>

ParksWhere == {"park", "recreation_ground"}
NaturalWhere == {"forest", "grass", "meadow"}
ResidentialWhere == {"residential"}

NoError == [type |-> "", text |-> <<>>, at |-> ""]

\* an exception raised inside the try block of main travels to line 135
RaiseInMain(type, text) ==
    /\ m_err' = [type |-> type, text |-> text, at |-> m_pc]
    /\ m_pc' = "handler"

\* lines 91, 11-23: setup_workspace, called before the try block
SetupWorkspace ==
    /\ m_pc = "setup"
    /\ IF gdb_exists
       THEN /\ printed' = Append(printed, Msg("using_gdb", 0, 0, <<>>))
            /\ m_pc' = "parks"
            /\ UNCHANGED <<gdb_exists, m_err>>
       ELSE \E outcome \in {<<>>, OtherError1} :
              IF outcome = <<>>
              THEN /\ gdb_exists' = TRUE
                   /\ printed' = Append(printed, Msg("created_gdb", 0, 0, <<>>))
                   /\ m_pc' = "parks"
                   /\ m_err' = m_err
              ELSE /\ m_err' = [type |-> "ExecuteError", text |-> outcome, at |-> m_pc]
                   /\ m_pc' = "escaped"
                   /\ UNCHANGED <<gdb_exists, printed>>
    /\ UNCHANGED <<exists, contents, area_fields, workspace, written>>
    /\ UNCHANGED <<export_location, city_name, built_by, area_calls, fig>>
    /\ UNCHANGED <<e_vars, c_vars>>

\* a call site extract_features(find_shapefile(pattern), fc, where) of main
CallExtract(stage, pattern, fc, where) ==
    /\ m_pc = stage
    /\ e_pc = "idle"
    /\ LET i == find_shapefile(workspace, pattern)
       IN  IF i = 0
           THEN /\ RaiseInMain("FileNotFoundError", pattern)
                /\ UNCHANGED e_vars
           ELSE /\ EnterExtract(workspace[i].feats, fc, where,
                                DEFAULT_MAX_ATTEMPTS, DEFAULT_DELAY)
                /\ UNCHANGED <<m_pc, m_err>>
    /\ UNCHANGED <<export_location, city_name, built_by, area_calls, fig>>
    /\ UNCHANGED <<g_vars, c_vars, printed>>

\* lines 95-96
ExtractParks == CallExtract("parks", LandusePattern, "Parks", ParksWhere)

\* lines 97-98
ExtractNatural == CallExtract("natural", NaturalPattern, "NaturalAreas", NaturalWhere)

\* lines 114-115
ExtractResidential == CallExtract("residential", LandusePattern, "Residential", ResidentialWhere)

AfterExtract(stage) ==
    CASE stage = "parks" -> "natural"
      [] stage = "natural" -> "build"
      [] stage = "residential" -> "map"

\* extract_features returned to main
ExtractReturn ==
    /\ m_pc \in {"parks", "natural", "residential"}
    /\ e_pc = "returned"
    /\ e_pc' = "idle"
    /\ m_pc' = AfterExtract(m_pc)
    /\ UNCHANGED <<max_attempts, delay, input_shp, output_fc, where_clause, attempt, e_err, log>>
    /\ UNCHANGED <<export_location, city_name, m_err, built_by, area_calls, fig>>
    /\ UNCHANGED <<g_vars, c_vars, printed>>

\* extract_features raised into main
ExtractRaise ==
    /\ m_pc \in {"parks", "natural", "residential"}
    /\ e_pc = "raised"
    /\ e_pc' = "idle"
    /\ RaiseInMain("ExecuteError", e_err)
    /\ UNCHANGED <<max_attempts, delay, input_shp, output_fc, where_clause, attempt, e_err, log>>
    /\ UNCHANGED <<export_location, city_name, built_by, area_calls, fig>>
    /\ UNCHANGED <<g_vars, c_vars, printed>>

\* what arcpy.management.Copy(src, GreenSpaces) leaves: rows and fields of src
CopyToGreen(src) ==
    /\ exists' = exists \cup {"GreenSpaces"}
    /\ contents' = [contents EXCEPT !["GreenSpaces"] = contents[src]]
    /\ area_fields' = IF src \in area_fields
                      THEN area_fields \cup {"GreenSpaces"}
                      ELSE area_fields \ {"GreenSpaces"}

\* lines 100-108
BuildGreenSpaces ==
    /\ m_pc = "build"
    /\ \E outcome \in {<<>>, OtherError1} :
         IF "Parks" \in exists /\ "NaturalAreas" \in exists
         THEN IF outcome = <<>>
              THEN /\ exists' = exists \cup {"GreenSpaces"}
                   /\ contents' = [contents EXCEPT !["GreenSpaces"] =
                                       contents["Parks"] \o contents["NaturalAreas"]]
                   /\ area_fields' = area_fields \ {"GreenSpaces"}
                   /\ built_by' = "Merge"
                   /\ m_pc' = "areas"
                   /\ UNCHANGED <<m_err, printed>>
              ELSE /\ RaiseInMain("ExecuteError", outcome)
                   /\ UNCHANGED <<exists, contents, area_fields, built_by, printed>>
         ELSE IF "Parks" \in exists
         THEN IF outcome = <<>>
              THEN /\ CopyToGreen("Parks")
                   /\ built_by' = "CopyParks"
                   /\ m_pc' = "areas"
                   /\ UNCHANGED <<m_err, printed>>
              ELSE /\ RaiseInMain("ExecuteError", outcome)
                   /\ UNCHANGED <<exists, contents, area_fields, built_by, printed>>
         ELSE IF "NaturalAreas" \in exists
         THEN IF outcome = <<>>
              THEN /\ CopyToGreen("NaturalAreas")
                   /\ built_by' = "CopyNatural"
                   /\ m_pc' = "areas"
                   /\ UNCHANGED <<m_err, printed>>
              ELSE /\ RaiseInMain("ExecuteError", outcome)
                   /\ UNCHANGED <<exists, contents, area_fields, built_by, printed>>
         ELSE /\ printed' = Append(printed, Msg("warning_no_green", 0, 0, <<>>))
              /\ built_by' = "Warning"
              /\ m_pc' = "areas"
              /\ UNCHANGED <<exists, contents, area_fields, m_err>>
    /\ UNCHANGED <<gdb_exists, workspace, written>>
    /\ UNCHANGED <<export_location, city_name, area_calls, fig>>
    /\ UNCHANGED <<e_vars, c_vars>>

\* line 111 handing calculate_areas the first input layer instead
AreaTarget_Parks == "Parks"

\* line 111: the argument of calculate_areas
AreaTarget == "GreenSpaces"

\* lines 110-111, 45-49
CalculateAreas ==
    /\ m_pc = "areas"
    /\ IF "GreenSpaces" \in exists
       THEN /\ area_calls' = Append(area_calls, AreaTarget)
            /\ \E outcome \in {"ok", "AddField fails", "CalculateField fails"} :
                 /\ area_fields' = IF outcome = "AddField fails"
                                   THEN area_fields
                                   ELSE area_fields \cup {AreaTarget}
                 /\ IF outcome = "ok"
                    THEN /\ m_pc' = "residential"
                         /\ m_err' = m_err
                    ELSE RaiseInMain("ExecuteError", OtherError1)
       ELSE /\ m_pc' = "residential"
            /\ UNCHANGED <<area_calls, area_fields, m_err>>
    /\ UNCHANGED <<gdb_exists, exists, contents, workspace, written>>
    /\ UNCHANGED <<export_location, city_name, built_by, fig>>
    /\ UNCHANGED <<e_vars, c_vars, printed>>

\* lines 66-68 and 70-72: what a layer contributes to the figure: nothing when
\* it does not exist, its scatter data otherwise
Layer(fc) == IF fc \in exists THEN feature_to_coords(contents[fc]).data ELSE <<>>

\* lines 68, 72: the scatter call of an existing layer can index its array
ScatterOk(fc) == fc \in exists => CanTakeColumns(feature_to_coords(contents[fc]))

\* lines 118, 62-88: create_map
CreateMap ==
    /\ m_pc = "map"
    /\ \E cursor \in {"ok", "fails"} :
         IF cursor = "fails" /\ ("GreenSpaces" \in exists \/ "Residential" \in exists)
         THEN /\ RaiseInMain("RuntimeError", <<>>)
              /\ fig' = fig
         ELSE IF ~ScatterOk("GreenSpaces") \/ ~ScatterOk("Residential")
         THEN /\ RaiseInMain("IndexError", <<>>)
              /\ fig' = fig
         ELSE /\ fig' = [made |-> TRUE, title |-> city_name,
                         green |-> Layer("GreenSpaces"),
                         residential |-> Layer("Residential")]
              /\ m_pc' = "png"
              /\ m_err' = m_err
    /\ UNCHANGED <<export_location, city_name, built_by, area_calls>>
    /\ UNCHANGED <<e_vars, g_vars, c_vars, printed>>

\* line 121
png_path == os_path_join(export_location, PngName(city_name))

\* line 122
pdf_path == os_path_join(export_location, PdfName(city_name))

\* lines 121-124: plt.savefig(png_path, ...)
SavePng ==
    /\ m_pc = "png"
    /\ \E ok \in BOOLEAN :
         IF ok
         THEN /\ written' = Append(written, png_path)
              /\ m_pc' = "pdf"
              /\ m_err' = m_err
         ELSE /\ RaiseInMain("OSError", png_path)
              /\ written' = written
    /\ UNCHANGED <<gdb_exists, exists, contents, area_fields, workspace>>
    /\ UNCHANGED <<export_location, city_name, built_by, area_calls, fig>>
    /\ UNCHANGED <<e_vars, c_vars, printed>>

\* lines 126-127: with PdfPages(pdf_path) as pdf: pdf.savefig(fig, ...)
SavePdf ==
    /\ m_pc = "pdf"
    /\ \E ok \in BOOLEAN :
         IF ok
         THEN /\ written' = Append(written, pdf_path)
              /\ m_pc' = "finish"
              /\ m_err' = m_err
         ELSE /\ RaiseInMain("OSError", pdf_path)
              /\ written' = written
    /\ UNCHANGED <<gdb_exists, exists, contents, area_fields, workspace>>
    /\ UNCHANGED <<export_location, city_name, built_by, area_calls, fig>>
    /\ UNCHANGED <<e_vars, c_vars, printed>>

\* lines 129-133
Finish ==
    /\ m_pc = "finish"
    /\ printed' = printed \o <<Msg("complete", 0, 0, <<>>),
                              Msg("saved_png", 0, 0, png_path),
                              Msg("saved_pdf", 0, 0, pdf_path)>>
    /\ m_pc' = "done"
    /\ UNCHANGED <<export_location, city_name, m_err, built_by, area_calls, fig>>
    /\ UNCHANGED <<e_vars, g_vars, c_vars>>

\* lines 135-137: except Exception as e
Handler ==
    /\ m_pc = "handler"
    /\ printed' = printed \o <<Msg("error", 0, 0, m_err.text),
                              Msg("hint", 0, 0, <<>>)>>
    /\ m_pc' = "done"
    /\ UNCHANGED <<export_location, city_name, m_err, built_by, area_calls, fig>>
    /\ UNCHANGED <<e_vars, g_vars, c_vars>>

main ==
    \/ SetupWorkspace
    \/ ExtractParks
    \/ ExtractNatural
    \/ ExtractReturn
    \/ ExtractRaise
    \/ BuildGreenSpaces
    \/ CalculateAreas
    \/ ExtractResidential
    \/ CreateMap
    \/ SavePng
    \/ SavePdf
    \/ Finish
    \/ Handler

----------------------------------------------------------------------------
(* Inputs *)

PA == Pt(0, 0)
PB == Pt(1, 2)
PC == Pt(2, 1)

\* geometries: no part, an empty part, only a null point, single point, a ring
\* separator inside a part, multipart with a leading null, multipart with an empty part
FeatureShapes ==
    { <<>>,
      << <<>> >>,
      << <<NonePoint>> >>,
      << <<PA>> >>,
      << <<PA, NonePoint, PB>> >>,
      << <<PB>>, <<NonePoint, PC>> >>,
      << <<PC, PA>>, <<>>, <<PB>> >> }

Feature(fclass, shape) == [fclass |-> fclass, shape |-> shape]

LanduseFull ==
    << Feature("park", << <<PA, NonePoint, PB>> >>),
       Feature("residential", << <<PC>> >>),
       Feature("recreation_ground", << <<PB>>, <<NonePoint, PC>> >>),
       Feature("forest", << <<PA>> >>) >>
LanduseResidentialOnly == << Feature("residential", << <<PC, PA>> >>) >>
LanduseNullParks ==
    << Feature("park", << <<NonePoint>> >>), Feature("residential", << <<PB>> >>) >>
LanduseParksOnly == << Feature("park", << <<PA>> >>) >>

NaturalFull ==
    << Feature("forest", << <<PC, PA>>, <<>>, <<PB>> >>),
       Feature("water", << <<PB>> >>),
       Feature("grass", << <<PA>> >>) >>
NaturalWaterOnly == << Feature("water", << <<PB>> >>) >>

File(name, feats) == [name |-> name, feats |-> feats]
\* "osm_landuse_a.shp", "osm_natural.shp", "natural_landuse.shp", "osm_landuse_a.dbf"
\* and "landuse.shp.xml"
LanduseName == <<"o", "s", "m", "_", "l", "a", "n", "d", "u", "s", "e", "_", "a", ".", "s", "h", "p">>
NaturalName == <<"o", "s", "m", "_", "n", "a", "t", "u", "r", "a", "l", ".", "s", "h", "p">>
BothName == <<"n", "a", "t", "u", "r", "a", "l", "_", "l", "a", "n", "d", "u", "s", "e", ".", "s", "h", "p">>
SidecarName == <<"o", "s", "m", "_", "l", "a", "n", "d", "u", "s", "e", "_", "a", ".", "d", "b", "f">>
MetadataName == <<"l", "a", "n", "d", "u", "s", "e", ".", "s", "h", "p", ".", "x", "m", "l">>

\* what arcpy.ListFiles can see in the workspace directory
Workspaces ==
    { <<>>,
      << File(LanduseName, LanduseFull), File(NaturalName, NaturalFull) >>,
      << File(SidecarName, <<>>), File(MetadataName, <<>>), File(NaturalName, NaturalFull) >>,
      << File(LanduseName, LanduseFull) >>,
      << File(LanduseName, LanduseResidentialOnly), File(NaturalName, <<>>) >>,
      << File(LanduseName, LanduseNullParks), File(NaturalName, NaturalWaterOnly) >>,
      << File(NaturalName, NaturalFull), File(LanduseName, LanduseParksOnly) >>,
      << File(BothName, LanduseFull), File(NaturalName, NaturalFull) >> }

\* feature classes a previous run may have left in the geodatabase
LeftOvers == { {}, {"Parks"}, {"GreenSpaces"}, FCNames }
StaleRows == << Feature("park", << <<PC>> >>) >>

Cities == { <<"R", "i", "o">>, <<"L", " ", "A">> }
ExportLocations == { <<>>, <<"o", "u", "t">>, <<"o", "u", "t", "/">>, <<"/", "e", "/", "x">> }
Delays == {0, 1, DEFAULT_DELAY}

NoFig == [made |-> FALSE, title |-> <<>>, green |-> <<>>, residential |-> <<>>]
NoCoords == [ndim |-> 0, data |-> <<>>]

----------------------------------------------------------------------------
(* Specifications *)

\* extract_features not entered
ExtractIdle ==
    /\ e_pc = "idle"
    /\ max_attempts = DEFAULT_MAX_ATTEMPTS
    /\ delay = DEFAULT_DELAY
    /\ input_shp = <<>>
    /\ output_fc = ""
    /\ where_clause = {}
    /\ attempt = -1
    /\ e_err = <<>>
    /\ log = <<>>

\* main not running
MainParked ==
    /\ m_pc = "harness"
    /\ export_location = <<>>
    /\ city_name = <<>>
    /\ m_err = NoError
    /\ built_by = "none"
    /\ area_calls = <<>>
    /\ fig = NoFig
    /\ printed = <<>>

CoordsParked ==
    /\ fc_in = <<>>
    /\ coords_out = NoCoords

\* main(workspace, export_location, city_name) entered
Init ==
    /\ ExtractIdle
    /\ CoordsParked
    /\ gdb_exists \in BOOLEAN
    /\ exists \in LeftOvers
    /\ ~gdb_exists => exists = {}
    /\ contents = [fc \in FCNames |-> IF fc \in exists THEN StaleRows ELSE <<>>]
    /\ area_fields = exists \cap {"GreenSpaces"}
    /\ workspace \in Workspaces
    /\ written = <<>>
    /\ m_pc = "setup"
    /\ export_location \in ExportLocations
    /\ city_name \in Cities
    /\ m_err = NoError
    /\ built_by = "none"
    /\ area_calls = <<>>
    /\ fig = NoFig
    /\ printed = <<>>

Next == main \/ extract_features

Spec == Init /\ [][Next]_vars

\* extract_features(input_shp, output_fc, where_clause, max_attempts, delay) entered
InitExtract ==
    /\ MainParked
    /\ CoordsParked
    /\ gdb_exists = TRUE
    /\ exists \in { {}, {"Parks"} }
    /\ contents = [fc \in FCNames |-> IF fc \in exists THEN StaleRows ELSE <<>>]
    /\ area_fields = {}
    /\ workspace = <<>>
    /\ written = <<>>
    /\ e_pc = "loop"
    /\ max_attempts \in -1..MaxAttemptsBound
    /\ delay \in Delays
    /\ input_shp \in {LanduseFull, LanduseResidentialOnly}
    /\ output_fc = "Parks"
    /\ where_clause = ParksWhere
    /\ attempt = -1
    /\ e_err = <<>>
    /\ log = <<>>

NextExtract == extract_features

SpecExtract == InitExtract /\ [][NextExtract]_vars

\* feature_to_coords(feature_class) about to be applied
InitCoords ==
    /\ ExtractIdle
    /\ MainParked
    /\ gdb_exists = TRUE
    /\ exists = {}
    /\ contents = [fc \in FCNames |-> <<>>]
    /\ area_fields = {}
    /\ workspace = <<>>
    /\ written = <<>>
    /\ fc_in \in SeqsUpTo({Feature("park", sh) : sh \in FeatureShapes}, MaxFeatures)
    /\ coords_out = NoCoords

\* coords = feature_to_coords(fc)
ApplyFeatureToCoords ==
    /\ coords_out = NoCoords
    /\ coords_out' = feature_to_coords(fc_in)
    /\ UNCHANGED <<fc_in, e_vars, g_vars, m_vars, printed>>

NextCoords == ApplyFeatureToCoords

SpecCoords == InitCoords /\ [][NextCoords]_vars

----------------------------------------------------------------------------
(* Properties of extract_features (SpecExtract) *)

IsCall(ev) == ev.t = "call"
IsSleep(ev) == ev.t = "sleep"
NumCalls == Len(SelectSeq(log, IsCall))
NumSleeps == Len(SelectSeq(log, IsSleep))
ExtractEnded == e_pc \in {"returned", "raised"}
Succeeded == \E i \in 1..Len(log) : IsCall(log[i]) /\ log[i].r = <<>>
\* some position of the text starts the twelve characters E R R O R space 0 0 0 4 6 4
Has464(text) ==
    \E i \in 1..Len(text) :
        /\ i + 11 <= Len(text)
        /\ \A k \in 0..11 : text[i + k] = <<"E", "R", "R", "O", "R", " ", "0", "0", "0", "4", "6", "4">>[k + 1]
AllCallsLocked == \A i \in 1..Len(log) : IsCall(log[i]) => Has464(log[i].r)

\* C1: when every Select_analysis call fails with an ExecuteError containing
\* "ERROR 000464", the call is made exactly max_attempts times and no more, and the
\* invocation ends by raising the error of the final attempt.
C1_RetryStopsAfterMaxAttempts ==
    /\ NumCalls <= (IF max_attempts > 0 THEN max_attempts ELSE 0)
    /\ (ExtractEnded /\ AllCallsLocked /\ max_attempts >= 1) =>
          /\ NumCalls = max_attempts
          /\ e_pc = "raised"
          /\ IsCall(Last(log))
          /\ e_err = Last(log).r

C1_Witness ==
    /\ e_pc = "raised"
    /\ max_attempts = DEFAULT_MAX_ATTEMPTS
    /\ NumCalls = DEFAULT_MAX_ATTEMPTS
    /\ AllCallsLocked
    /\ e_err = LockError2

\* C2: a Select_analysis failure whose text lacks "ERROR 000464" is the last thing
\* the invocation does: no sleep and no call follows it, whatever the attempt, and the
\* error in flight is that failure's.
C2_OtherErrorsPropagateAtOnce ==
    \A i \in 1..Len(log) :
        (IsCall(log[i]) /\ log[i].r # <<>> /\ ~Has464(log[i].r)) =>
            /\ i = Len(log)
            /\ e_pc \in {"except", "raised"}
            /\ e_err = log[i].r

C2_Witness ==
    /\ e_pc = "raised"
    /\ e_err = OtherError2
    /\ NumCalls = 3
    /\ NumCalls < max_attempts

\* C6: calls and sleeps alternate starting with a call; every sleep lasts `delay`
\* and follows a failed call; a finished invocation that made a call ended on a call,
\* so its sleeps number its calls minus one.
C6_FixedBackoff ==
    /\ \A i \in 1..Len(log) :
          IF i % 2 = 1
          THEN IsCall(log[i])
          ELSE /\ IsSleep(log[i])
               /\ log[i].d = delay
               /\ log[i - 1].r # <<>>
    /\ ExtractEnded /\ log # <<>> =>
          /\ IsCall(Last(log))
          /\ NumSleeps = NumCalls - 1
    /\ log = <<>> => NumSleeps = 0

C6_Witness ==
    /\ ExtractEnded
    /\ delay = DEFAULT_DELAY
    /\ NumSleeps = 2
    /\ NumCalls = 3

\* C8: extract_features returns normally only if one of its Select_analysis calls
\* succeeded, for every max_attempts.
C8_ReturnsOnlyAfterSuccess == e_pc = "returned" => Succeeded

----------------------------------------------------------------------------
(* Properties of feature_to_coords (SpecCoords) *)

\* the (feature, part, point) positions of the non-null points of a feature class
NonNullSlots(feats) ==
    UNION { UNION { { <<i, j, k>> : k \in { n \in 1..Len(feats[i].shape[j]) :
                                              ~feats[i].shape[j][n].none } }
                    : j \in 1..Len(feats[i].shape) }
            : i \in 1..Len(feats) }

\* feature by feature, then part by part, then point by point
Before(s, t) ==
    \/ s[1] < t[1]
    \/ s[1] = t[1] /\ s[2] < t[2]
    \/ s[1] = t[1] /\ s[2] = t[2] /\ s[3] < t[3]

Rank(feats, t) == 1 + Cardinality({ s \in NonNullSlots(feats) : Before(s, t) })

\* C4: the returned coordinates are exactly the (X, Y) pairs of the non-null points
\* in feature, part, point order: as many entries as non-null points, and the n-th
\* non-null point at entry n.
C4_FlatteningKeepsOrder ==
    coords_out # NoCoords =>
        /\ Len(coords_out.data) = Cardinality(NonNullSlots(fc_in))
        /\ \A t \in NonNullSlots(fc_in) :
              coords_out.data[Rank(fc_in, t)] =
                  << fc_in[t[1]].shape[t[2]][t[3]].X, fc_in[t[1]].shape[t[2]][t[3]].Y >>

C4_Witness ==
    /\ coords_out # NoCoords
    /\ Len(fc_in) = 3
    /\ fc_in[1].shape = << <<PB>>, <<NonePoint, PC>> >>
    /\ fc_in[2].shape = << <<NonePoint>> >>
    /\ fc_in[3].shape = << <<PA, NonePoint, PB>> >>
    /\ coords_out.data = << <<1, 2>>, <<2, 1>>, <<0, 0>>, <<1, 2>> >>

----------------------------------------------------------------------------
(* Properties of main (Spec) *)

\* the directory part of a path inside directory d
DirPrefix(d) == IF d = <<>> THEN <<>> ELSE IF Last(d) = "/" THEN d ELSE d \o <<"/">>

Retried == \E i \in 1..Len(printed) : printed[i].msg = "retrying"

\* C3: every failure raised in a step of main reaches the handler, which prints a
\* message, and main returns normally: no exception leaves main.
C3_EveryFailureIsHandled ==
    m_err # NoError =>
        \/ m_pc = "handler"
        \/ /\ m_pc = "done"
           /\ \E i \in 1..Len(printed) : printed[i].msg = "error"

\* C5: the files written are, in order, urban_green_space_map_<city_name>.png and
\* urban_green_space_analysis_<city_name>.pdf inside export_location, whatever the
\* workspace holds, whichever layers exist and however many retries happened.
C5_OutputPathsFromCityName ==
    /\ Len(written) <= 2
    /\ Len(written) >= 1 =>
          written[1] = DirPrefix(export_location)
                          \o <<"u", "r", "b", "a", "n", "_", "g", "r", "e", "e", "n", "_", "s", "p", "a", "c", "e", "_", "m", "a", "p", "_">>
                          \o city_name \o <<".", "p", "n", "g">>
    /\ Len(written) = 2 =>
          written[2] = DirPrefix(export_location)
                          \o <<"u", "r", "b", "a", "n", "_", "g", "r", "e", "e", "n", "_", "s", "p", "a", "c", "e", "_", "a", "n", "a", "l", "y", "s", "i", "s", "_">>
                          \o city_name \o <<".", "p", "d", "f">>

C5_Witness ==
    /\ m_pc = "done"
    /\ Retried
    /\ export_location = <<"o", "u", "t">>
    \* out/urban_green_space_map_Rio.png, out/urban_green_space_analysis_Rio.pdf
    /\ written = << <<"o", "u", "t", "/", "u", "r", "b", "a", "n", "_", "g", "r", "e", "e", "n", "_", "s", "p", "a", "c", "e", "_", "m", "a", "p", "_", "R", "i", "o", ".", "p", "n", "g">>,
                    <<"o", "u", "t", "/", "u", "r", "b", "a", "n", "_", "g", "r", "e", "e", "n", "_", "s", "p", "a", "c", "e", "_", "a", "n", "a", "l", "y", "s", "i", "s", "_", "R", "i", "o", ".", "p", "d", "f">> >>

\* C7: calculate_areas is invoked at most once, on GreenSpaces only, only when that
\* feature class exists and after the merge/copy step produced it; Parks,
\* NaturalAreas and Residential never carry the Area_Hectares field.
C7_AreaFieldAddedOnce ==
    /\ Len(area_calls) <= 1
    /\ \A i \in 1..Len(area_calls) : area_calls[i] = "GreenSpaces"
    /\ area_calls # <<>> =>
          /\ "GreenSpaces" \in exists
          /\ built_by \in {"Merge", "CopyParks", "CopyNatural"}
    /\ area_fields \cap {"Parks", "NaturalAreas", "Residential"} = {}

C7_Witness ==
    /\ m_pc = "done"
    /\ area_calls = <<"GreenSpaces">>
    /\ "GreenSpaces" \in area_fields
    /\ built_by = "Merge"

\* C9: create_map never raises on a layer that exists but flattens to zero
\* coordinates.
C9_CreateMapHandlesEmptyLayers == ~(m_err.at = "map" /\ m_err.type = "IndexError")

\* C10: control reaches the construction of GreenSpaces only with Parks and
\* NaturalAreas both in existence, GreenSpaces is built by Merge or not at all, and a
\* missing landuse or natural shapefile or a failed extraction ends the run in the
\* handler with no GreenSpaces built.
C10_GreenSpacesOnlyByMerge ==
    /\ built_by \in {"none", "Merge"}
    /\ m_pc = "build" => {"Parks", "NaturalAreas"} \subseteq exists
    /\ built_by = "Merge" => {"Parks", "NaturalAreas"} \subseteq exists
    /\ (m_pc = "done" /\ \E pat \in {LandusePattern, NaturalPattern} :
                             \A i \in 1..Len(workspace) : ~Matches(workspace[i].name, pat)) =>
          /\ built_by = "none"
          /\ m_err # NoError
    /\ m_err.at \in {"parks", "natural"} => built_by = "none"

C10_Witness ==
    /\ m_pc = "done"
    /\ m_err.type = "FileNotFoundError"
    /\ m_err.at = "natural"
    /\ "Parks" \in exists
    /\ "GreenSpaces" \notin exists
    /\ built_by = "none"

====
